---------------------------- MODULE Spec2Model ----------------------------
(***************************************************************************)
(* A model of qbit-checker: the torrent filter builder, the ranking        *)
(* strategies, the cleanup selection and the qBittorrent client wrapper    *)
(* of qbit_checker.py, and the driver of check_and_make_disk_space.py.     *)
(*                                                                         *)
(* A Python str is a sequence of one-character strings, so that split(",") *)
(* and strip() are computed, not assumed.  A torrent is a record with the  *)
(* attributes the code reads.  Python ints are unbounded; the model keeps  *)
(* them small.                                                             *)
(***************************************************************************)
EXTENDS Integers, Sequences, FiniteSets, TLC

VARIABLES
    pc,                     \* position of the running call / of main()
    torrents,               \* select_torrents_for_cleanup: argument torrents
    space_to_free_bytes,    \* select_torrents_for_cleanup: argument
    strategy,               \* select_torrents_for_cleanup: argument (by name)
    selected_for_deletion,  \* select_torrents_for_cleanup: returned list
    strategy_result,        \* the list a ranking strategy returned
    _torrents,              \* TorrentFilterBuilder._torrents
    _filters,               \* TorrentFilterBuilder._filters
    build_calls,            \* build() calls since the last with*: "none", "once", "twice"
    build_result,           \* what the last build() returned
    server_torrents,        \* qBittorrent: what torrents_info() returns
    torrents_delete_calls,  \* qBittorrent: the torrents_delete() requests received
    exclude_tags,           \* get_eligible_torrents: argument
    exclude_trackers,       \* get_eligible_torrents: argument
    candidates,             \* get_finished/get_eligible_torrents: returned list
    remove_arg,             \* remove_torrents called directly: its arguments
    required_space_bytes,   \* main: args.bytes
    checked_free,           \* main: free space seen by the initial check
    current_free_bytes,     \* main: free space read to compute the deficit
    space_deficit_bytes,    \* main
    all_torrents,           \* main
    filtered_torrents,      \* main
    torrents_to_remove,     \* main
    rechecked_free,         \* main: free space seen by the check after the delete
    client_calls,           \* main: the requests made to qBittorrent, in order
    exit_code               \* main: the code of sys.exit, -1 while running

selectVars ==
    <<torrents, space_to_free_bytes, strategy, selected_for_deletion,
      strategy_result>>

builderVars == <<_torrents, _filters, build_calls, build_result>>

clientVars ==
    <<server_torrents, torrents_delete_calls, exclude_tags, exclude_trackers,
      candidates, remove_arg>>

driverVars ==
    <<required_space_bytes, checked_free, current_free_bytes,
      space_deficit_bytes, all_torrents, filtered_torrents, torrents_to_remove,
      rechecked_free, client_calls, exit_code>>

vars == <<pc, selectVars, builderVars, clientVars, driverVars>>

-----------------------------------------------------------------------------
(* Bounds of the model. *)

MaxCandidates == 3      \* longest candidate list given to the selection
MaxSize == 2            \* largest torrent size
MaxSpace == 5           \* largest space_to_free_bytes asked of the selection
MaxTorrents == 2        \* longest torrent list given to a filter builder
MaxFilters == 2         \* most predicates added to one builder
MaxTagLen == 3          \* longest tag string of the record in SpecTags
MaxServer == 2          \* most torrents the qBittorrent server lists
MaxFree == 3            \* largest free space the disk reports
MaxRequired == 3        \* largest args.bytes

-----------------------------------------------------------------------------
(* Sequences. *)

Range(s) == {s[i] : i \in DOMAIN s}

SeqsUpTo(S, n) == UNION {[1..k -> S] : k \in 0..n}

RECURSIVE SumSizeFrom(_, _)
SumSizeFrom(ts, i) ==
    IF i > Len(ts) THEN 0 ELSE ts[i].size + SumSizeFrom(ts, i + 1)

\* sum(t.size for t in ts)
SumSize(ts) == SumSizeFrom(ts, 1)

IsPrefix(p, s) == Len(p) <= Len(s) /\ \A i \in DOMAIN p : p[i] = s[i]

-----------------------------------------------------------------------------
(* Ranking strategies.  sorted() is stable: elements with equal keys keep  *)
(* their input order, also under reverse=True.                            *)

\* The key without its guard on the size: for a torrent of size 0 the
\* denominator is 0.
score_unguarded(t) == [num |-> t.seeding_time, den |-> t.size]

\* The key of strategy_score_by_seeding_time, as a fraction num/den.  The
\* code's key is (seeding_time / 86400) / (size / 1024**3): the factor
\* 1024**3 / 86400 is positive and common to every key, so it is left out of
\* the comparison.
score(t) ==
    IF t.size > 0 THEN [num |-> t.seeding_time, den |-> t.size]
    ELSE [num |-> 0, den |-> 1]

\* Whether a, already placed, stays ahead of b, which comes later in the
\* input: its key is not after b's in the order asked for.
StaysAhead(key, a, b) ==
    IF key = "size" THEN a.size <= b.size
    ELSE score(a).num * score(b).den >= score(b).num * score(a).den

\* Insert x into the sorted sequence s behind every element that stays ahead.
RECURSIVE InsertSorted(_, _, _, _)
InsertSorted(key, x, s, i) ==
    IF i <= Len(s) /\ StaysAhead(key, s[i], x)
    THEN InsertSorted(key, x, s, i + 1)
    ELSE SubSeq(s, 1, i - 1) \o <<x>> \o SubSeq(s, i, Len(s))

\* sorted(ts, key=...), by insertion from the left
RECURSIVE SortedFrom(_, _, _, _)
SortedFrom(key, ts, i, acc) ==
    IF i > Len(ts) THEN acc
    ELSE SortedFrom(key, ts, i + 1, InsertSorted(key, ts[i], acc, 1))

\* A strategy that hands the torrents back in the order it got them.
strategy_input_order(ts) == ts

strategy_smallest_first(ts) == SortedFrom("size", ts, 1, <<>>)

strategy_score_by_seeding_time(ts) == SortedFrom("score", ts, 1, <<>>)

Strategies == {"strategy_smallest_first", "strategy_score_by_seeding_time"}

\* strategy(torrents), the strategy being passed as a callable
ApplyStrategy(st, ts) ==
    IF st = "strategy_smallest_first" THEN strategy_smallest_first(ts)
    ELSE strategy_score_by_seeding_time(ts)

\* The caller's list after strategy(ts): sorted() builds a new list and does
\* not touch its argument.
ArgumentAfterSorted(ts) == ts

-----------------------------------------------------------------------------
(* QBitClient.select_torrents_for_cleanup *)

\* The for loop: position i of sorted_torrents, the list selected so far and
\* space_freed.  The test comes before the append.
RECURSIVE SelectLoop(_, _, _, _, _)
SelectLoop(sorted_torrents, target, i, selected, space_freed) ==
    IF i > Len(sorted_torrents) THEN selected
    ELSE IF space_freed >= target THEN selected
    ELSE SelectLoop(sorted_torrents, target, i + 1,
                    Append(selected, sorted_torrents[i]),
                    space_freed + sorted_torrents[i].size)

\* A loop that stops before the torrent that would reach the target.
RECURSIVE SelectLoopEarly(_, _, _, _, _)
SelectLoopEarly(sorted_torrents, target, i, selected, space_freed) ==
    IF i > Len(sorted_torrents) THEN selected
    ELSE IF space_freed + sorted_torrents[i].size >= target THEN selected
    ELSE SelectLoopEarly(sorted_torrents, target, i + 1,
                         Append(selected, sorted_torrents[i]),
                         space_freed + sorted_torrents[i].size)

\* Without the check that the space can be freed at all.
select_unchecked(ts, target, st) ==
    SelectLoop(ApplyStrategy(st, ts), target, 1, <<>>, 0)

\* With the stopping test after the append moved before it.
select_stops_early(ts, target, st) ==
    IF SumSize(ts) < target THEN <<>>
    ELSE SelectLoopEarly(ApplyStrategy(st, ts), target, 1, <<>>, 0)

\* With <= for < in the check that the space can be freed.
select_refuses_exact(ts, target, st) ==
    IF SumSize(ts) <= target THEN <<>>
    ELSE SelectLoop(ApplyStrategy(st, ts), target, 1, <<>>, 0)

\* Without the loop: every ranked torrent is taken.
select_everything(ts, target, st) ==
    IF SumSize(ts) < target THEN <<>> ELSE ApplyStrategy(st, ts)

select_torrents_for_cleanup(ts, target, st) ==
    IF SumSize(ts) < target THEN <<>>
    ELSE SelectLoop(ApplyStrategy(st, ts), target, 1, <<>>, 0)

-----------------------------------------------------------------------------
(* Python strings, as sequences of characters. *)

Whitespace == {" "}

\* s.split(sep): the parts between the separators; "".split(",") is [""].
RECURSIVE SplitFrom(_, _, _, _)
SplitFrom(s, sep, i, cur) ==
    IF i > Len(s) THEN <<cur>>
    ELSE IF s[i] = sep THEN <<cur>> \o SplitFrom(s, sep, i + 1, <<>>)
    ELSE SplitFrom(s, sep, i + 1, Append(cur, s[i]))

split(s, sep) == SplitFrom(s, sep, 1, <<>>)

RECURSIVE lstrip(_)
lstrip(s) ==
    IF s # <<>> /\ Head(s) \in Whitespace THEN lstrip(Tail(s)) ELSE s

RECURSIVE rstrip(_)
rstrip(s) ==
    IF s # <<>> /\ s[Len(s)] \in Whitespace
    THEN rstrip(SubSeq(s, 1, Len(s) - 1)) ELSE s

\* s.strip()
strip(s) == rstrip(lstrip(s))

\* sub in s
Contains(s, sub) ==
    \E i \in 0..(Len(s) - Len(sub)) : SubSeq(s, i + 1, i + Len(sub)) = sub

-----------------------------------------------------------------------------
(* Torrent records and the predicates of TorrentFilterBuilder. *)

Torrent(h, st, sz, tg, tr, ra, se, co) ==
    [hash |-> h, state |-> st, size |-> sz, tags |-> tg, trackers |-> tr,
     ratio |-> ra, seeding_time |-> se, completion_on |-> co]

\* The tags split without the strip() of each part.
TagsOfUnstripped(t) == Range(split(t.tags, ","))

\* {tag.strip() for tag in t.tags.split(",")}
TagsOf(t) == {strip(tag) : tag \in Range(split(t.tags, ","))}

\* {tracker["url"] for tracker in t.trackers}
TrackerUrls(t) == {t.trackers[i].url : i \in DOMAIN t.trackers}

\* A predicate of _filters is the with* call that made it: its kind and the
\* value its lambda closed over (tag_set = set(tags) for the tag predicates).
Filter(kind, arg) == [kind |-> kind, arg |-> arg]

\* The truth value of f(torrent) as all() reads it.
Accepts(f, t) ==
    CASE f.kind = "with_states" -> t.state \in f.arg
      [] f.kind = "with_tracker_containing" ->
             \E i \in DOMAIN t.trackers : Contains(t.trackers[i].url, f.arg)
      [] f.kind = "with_tags" -> (f.arg \cap TagsOf(t)) # {}
      [] f.kind = "without_tags" -> ~((f.arg \cap TagsOf(t)) # {})
      [] f.kind = "with_size_greater_than" -> t.size > f.arg
      [] f.kind = "with_size_less_than" -> t.size < f.arg
      [] f.kind = "completed_before" -> t.completion_on < f.arg
      [] f.kind = "completed_after" -> t.completion_on > f.arg
      [] f.kind = "with_ratio_greater_than" -> t.ratio > f.arg
      [] f.kind = "seeding_time_greater_than" -> t.seeding_time > f.arg
      [] f.kind = "seeding_time_less_than" -> t.seeding_time < f.arg

AllAccept(fs, t) == \A i \in DOMAIN fs : Accepts(fs[i], t)

\* build() with any() for all().
build_any(ts, fs) ==
    [result |-> IF fs = <<>> THEN ts
                ELSE SelectSeq(ts, LAMBDA t : \E i \in DOMAIN fs : Accepts(fs[i], t)),
     torrents |-> ts, filters |-> fs]

\* build() that reads only the predicate added last.
build_last_only(ts, fs) ==
    [result |-> IF fs = <<>> THEN ts
                ELSE SelectSeq(ts, LAMBDA t : Accepts(fs[Len(fs)], t)),
     torrents |-> ts, filters |-> fs]

\* build() that uses its predicates up.
build_consuming(ts, fs) ==
    [result |-> IF fs = <<>> THEN ts
                ELSE SelectSeq(ts, LAMBDA t : AllAccept(fs, t)),
     torrents |-> ts, filters |-> <<>>]

\* TorrentFilterBuilder.build: what it returns, and the builder's _torrents
\* and _filters after the call.
build(ts, fs) ==
    [result |-> IF fs = <<>> THEN ts
                ELSE SelectSeq(ts, LAMBDA t : AllAccept(fs, t)),
     torrents |-> ts, filters |-> fs]

-----------------------------------------------------------------------------
(* QBitClient. *)

\* The set with "uploading", the line the code comments out.
FinishedStatesWithUploading ==
    {"uploading", "stalledUP", "pausedUP", "checkingUP", "forcedUP"}

_FINISHED_STATES == {"stalledUP", "pausedUP", "checkingUP", "forcedUP"}

\* An optional list argument: None, or a list.
None == [is_none |-> TRUE, list |-> <<>>]

Some(l) == [is_none |-> FALSE, list |-> l]

\* if x: -- None and the empty list are false
Truthy(x) == ~x.is_none /\ x.list # <<>>

\* QBitClient.get_finished_torrents, of what torrents_info() returned
get_finished_torrents(info) ==
    SelectSeq(info, LAMBDA t : t.state \in _FINISHED_STATES)

\* QBitClient.get_eligible_torrents, of what torrents_info() returned
get_eligible_torrents(info, ex_tags, ex_trackers) ==
    LET finished == get_finished_torrents(info)
        untagged ==
            IF Truthy(ex_tags)
            THEN SelectSeq(finished,
                     LAMBDA t : ~((TagsOf(t) \cap Range(ex_tags.list)) # {}))
            ELSE finished
    IN  IF Truthy(ex_trackers)
        THEN SelectSeq(untagged,
                 LAMBDA t : ~((TrackerUrls(t) \cap Range(ex_trackers.list)) # {}))
        ELSE untagged

\* remove_torrents without its test for the empty list.
remove_torrents_unguarded(calls, ts, delete_files) ==
    Append(calls, [torrent_hashes |-> [i \in DOMAIN ts |-> ts[i].hash],
                   delete_files |-> delete_files])

\* QBitClient.remove_torrents: the torrents_delete requests after the call,
\* calls being those before it.
remove_torrents(calls, ts, delete_files) ==
    IF ts = <<>> THEN calls
    ELSE Append(calls, [torrent_hashes |-> [i \in DOMAIN ts |-> ts[i].hash],
                        delete_files |-> delete_files])

\* remove_torrents has not been called directly.
NotCalled == [called |-> FALSE, torrents |-> <<>>, delete_files |-> TRUE]

-----------------------------------------------------------------------------
(* The inputs the builder is run on. *)

TagAlphabet == {"a", ",", " "}

\* Every tag string of at most MaxTagLen characters.
TagStrings == UNION {[1..k -> TagAlphabet] : k \in 0..MaxTagLen}

\* Three torrents that differ in every attribute a predicate reads:
\* tags "a", "aa, a" and "".
FilterTorrents ==
    { Torrent(1, "stalledUP", 1, <<"a">>, << [url |-> <<"x", "p">>] >>, 3, 3, 1),
      Torrent(2, "pausedUP", 2, <<"a", "a", ",", " ", "a">>,
              << [url |-> <<"y">>], [url |-> <<"x">>] >>, 0, 0, 3),
      Torrent(3, "uploading", 3, <<>>, <<>>, 2, 2, 2) }

\* One torrent for each tag string.
TaggedTorrents ==
    { Torrent(1, "stalledUP", 1, tg, <<>>, 0, 0, 0) : tg \in TagStrings }

\* The tag lists given to with_tags and without_tags of the one-torrent
\* builder: [], [""], ["a"], ["aa", " a"].
TagLists ==
    { <<>>, << <<>> >>, << <<"a">> >>, << <<"a", "a">>, <<" ", "a">> >> }

\* The tag list given to them in a chain of predicates: ["aa"].
ChainTagLists == { << <<"a", "a">> >> }

StateSets == { {"stalledUP", "uploading"} }

Substrings == { <<"p">> }

Thresholds == {2}

-----------------------------------------------------------------------------
(* TorrentFilterBuilder: one action for each method. *)

\* self._filters.append(f); return self
AddFilter(f) ==
    /\ pc = "builder"
    /\ Len(_filters) < MaxFilters
    /\ _filters' = Append(_filters, f)
    /\ build_calls' = "none"
    /\ UNCHANGED <<pc, _torrents, build_result, selectVars, clientVars, driverVars>>

with_states ==
    \E states \in StateSets : AddFilter(Filter("with_states", states))

with_tracker_containing ==
    \E substring \in Substrings :
        AddFilter(Filter("with_tracker_containing", substring))

with_tags(lists) ==
    \E tags \in lists : AddFilter(Filter("with_tags", Range(tags)))

without_tags(lists) ==
    \E tags \in lists : AddFilter(Filter("without_tags", Range(tags)))

with_size_greater_than ==
    \E size_bytes \in Thresholds :
        AddFilter(Filter("with_size_greater_than", size_bytes))

with_size_less_than ==
    \E size_bytes \in Thresholds :
        AddFilter(Filter("with_size_less_than", size_bytes))

completed_before ==
    \E timestamp \in Thresholds :
        AddFilter(Filter("completed_before", timestamp))

completed_after ==
    \E timestamp \in Thresholds :
        AddFilter(Filter("completed_after", timestamp))

with_ratio_greater_than ==
    \E ratio \in Thresholds :
        AddFilter(Filter("with_ratio_greater_than", ratio))

seeding_time_greater_than ==
    \E seconds \in Thresholds :
        AddFilter(Filter("seeding_time_greater_than", seconds))

seeding_time_less_than ==
    \E seconds \in Thresholds :
        AddFilter(Filter("seeding_time_less_than", seconds))

\* The attribute of the torrent a predicate reads.
FieldRead(kind) ==
    CASE kind = "with_states" -> "state"
      [] kind = "with_tracker_containing" -> "trackers"
      [] kind \in {"with_tags", "without_tags"} -> "tags"
      [] kind \in {"with_size_greater_than", "with_size_less_than"} -> "size"
      [] kind \in {"completed_before", "completed_after"} -> "completion_on"
      [] kind = "with_ratio_greater_than" -> "ratio"
      [] OTHER -> "seeding_time"

\* Whether the predicate f raises on t: reading an attribute the record does
\* not have is an AttributeError, and no predicate catches it.
Raises(f, t) == FieldRead(f.kind) \notin DOMAIN t

\* Whether build() raises: all() calls the predicates of a torrent in order
\* and stops at the first that rejects, so a predicate raises when every one
\* before it has accepted.  Without predicates none is called.
BuildRaises(ts, fs) ==
    \E i \in DOMAIN ts : \E k \in DOMAIN fs :
        /\ \A j \in 1..(k - 1) : ~Raises(fs[j], ts[i]) /\ Accepts(fs[j], ts[i])
        /\ Raises(fs[k], ts[i])

\* builder.build(), the builder being left as the call leaves it; an exception
\* of a predicate leaves build() and ends the caller's run.
Build ==
    /\ pc = "builder"
    /\ IF BuildRaises(_torrents, _filters)
       THEN /\ pc' = "raised"
            /\ UNCHANGED builderVars
       ELSE /\ LET b == build(_torrents, _filters) IN
                 /\ build_result' = b.result
                 /\ _torrents' = b.torrents
                 /\ _filters' = b.filters
            /\ build_calls' = IF build_calls = "none" THEN "once" ELSE "twice"
            /\ UNCHANGED pc
    /\ UNCHANGED <<selectVars, clientVars, driverVars>>

-----------------------------------------------------------------------------
(* The selection called on bounded inputs. *)

\* A candidate of the selection: only hash, size and seeding_time are read.
Candidate(h, sz, st) ==
    [hash |-> h, size |-> sz, state |-> "stalledUP", tags |-> <<>>,
     trackers |-> <<>>, ratio |-> 0, seeding_time |-> st, completion_on |-> 0]

\* The seeding times of the candidates: none, and some.
SeedingTimes == {0, 1}

\* Candidate lists: the hash of a torrent is its position in the list.
CandidateLists ==
    UNION { { [i \in 1..k |-> Candidate(i, f[i][1], f[i][2])] :
                f \in [1..k -> (0..MaxSize) \X SeedingTimes] } :
            k \in 0..MaxCandidates }

\* The parts of the state a specification does not use stay as they start.
BuilderIdle ==
    /\ _torrents = <<>>
    /\ _filters = <<>>
    /\ build_calls = "none"
    /\ build_result = <<>>

ClientIdle ==
    /\ server_torrents = <<>>
    /\ torrents_delete_calls = <<>>
    /\ exclude_tags = None
    /\ exclude_trackers = None
    /\ candidates = <<>>
    /\ remove_arg = NotCalled

DriverIdle ==
    /\ required_space_bytes = 0
    /\ checked_free = -1
    /\ current_free_bytes = -1
    /\ space_deficit_bytes = 0
    /\ all_torrents = <<>>
    /\ filtered_torrents = <<>>
    /\ torrents_to_remove = <<>>
    /\ rechecked_free = -1
    /\ client_calls = <<>>
    /\ exit_code = -1

InitSelect ==
    /\ pc = "select"
    /\ BuilderIdle
    /\ ClientIdle
    /\ DriverIdle
    /\ torrents \in CandidateLists
    /\ space_to_free_bytes \in (-1)..MaxSpace
    /\ strategy \in Strategies
    /\ selected_for_deletion = <<>>
    /\ strategy_result = <<>>

CallSelect ==
    /\ pc = "select"
    /\ selected_for_deletion' =
           select_torrents_for_cleanup(torrents, space_to_free_bytes, strategy)
    /\ pc' = "selected"
    /\ UNCHANGED <<torrents, space_to_free_bytes, strategy, strategy_result,
                   builderVars, clientVars, driverVars>>

NextSelect == CallSelect

SpecSelect == InitSelect /\ [][NextSelect]_vars

-----------------------------------------------------------------------------
(* A ranking strategy called on its own. *)

\* The seeding times of the torrents ranked: none, some, and more.
RankedSeedingTimes == {0, 1, 2}

\* A strategy reads the size and the seeding time only, so the lists differ in
\* these; a list may hold equal records.
RankedTorrents ==
    { Candidate(1, sz, st) : sz \in 0..MaxSize, st \in RankedSeedingTimes }

StrategyLists == SeqsUpTo(RankedTorrents, MaxCandidates)

InitStrategy ==
    /\ pc = "strategy"
    /\ BuilderIdle
    /\ ClientIdle
    /\ DriverIdle
    /\ torrents \in StrategyLists
    /\ space_to_free_bytes = 0
    /\ strategy \in Strategies
    /\ selected_for_deletion = <<>>
    /\ strategy_result = <<>>

\* Whether computing the sort keys raises: the key of
\* strategy_score_by_seeding_time is a division, and a division by zero is a
\* ZeroDivisionError.
KeyRaises(st, ts) ==
    /\ st = "strategy_score_by_seeding_time"
    /\ \E i \in DOMAIN ts : score(ts[i]).den = 0

\* strategy(torrents): the list it returns, or the exception
CallStrategy ==
    /\ pc = "strategy"
    /\ IF KeyRaises(strategy, torrents)
       THEN /\ pc' = "raised"
            /\ UNCHANGED <<torrents, strategy_result>>
       ELSE /\ pc' = "sorted"
            /\ strategy_result' = ApplyStrategy(strategy, torrents)
            /\ torrents' = ArgumentAfterSorted(torrents)
    /\ UNCHANGED <<space_to_free_bytes, strategy, selected_for_deletion,
                   builderVars, clientVars, driverVars>>

NextStrategy == CallStrategy

SpecStrategy == InitStrategy /\ [][NextStrategy]_vars

-----------------------------------------------------------------------------
(* The builder run on bounded inputs. *)

SelectIdle ==
    /\ strategy_result = <<>>
    /\ torrents = <<>>
    /\ space_to_free_bytes = 0
    /\ strategy = "strategy_smallest_first"
    /\ selected_for_deletion = <<>>

\* TorrentFilterBuilder(torrents)
NewBuilder(ts) ==
    /\ pc = "builder"
    /\ _torrents = ts
    /\ _filters = <<>>
    /\ build_calls = "none"
    /\ build_result = <<>>

InitFilter ==
    /\ \E ts \in SeqsUpTo(FilterTorrents, MaxTorrents) : NewBuilder(ts)
    /\ SelectIdle
    /\ ClientIdle
    /\ DriverIdle

NextFilter ==
    \/ with_states
    \/ with_tracker_containing
    \/ with_tags(ChainTagLists)
    \/ without_tags(ChainTagLists)
    \/ with_size_greater_than
    \/ with_size_less_than
    \/ completed_before
    \/ completed_after
    \/ with_ratio_greater_than
    \/ seeding_time_greater_than
    \/ seeding_time_less_than
    \/ Build

SpecFilter == InitFilter /\ [][NextFilter]_vars

\* A builder over one torrent, its tag string any string of the alphabet, and
\* the two tag predicates.
InitTags ==
    /\ \E t \in TaggedTorrents : NewBuilder(<<t>>)
    /\ SelectIdle
    /\ ClientIdle
    /\ DriverIdle

NextTags ==
    \/ with_tags(TagLists)
    \/ without_tags(TagLists)
    \/ Build

SpecTags == InitTags /\ [][NextTags]_vars

\* A torrent record without the attribute tags.
WithoutTagsAttribute(t) == [f \in DOMAIN t \ {"tags"} |-> t[f]]

\* Lists of torrents of which exactly one lacks its tag string.
MalformedLists ==
    { l \in SeqsUpTo(FilterTorrents
                        \cup {WithoutTagsAttribute(t) : t \in FilterTorrents},
                     MaxTorrents) :
        Cardinality({i \in DOMAIN l : "tags" \notin DOMAIN l[i]}) = 1 }

\* A builder over a list with one such record, and the predicates on states
\* and on tags.
InitMalformed ==
    /\ \E ts \in MalformedLists : NewBuilder(ts)
    /\ SelectIdle
    /\ ClientIdle
    /\ DriverIdle

NextMalformed ==
    \/ with_states
    \/ with_tags(TagLists)
    \/ without_tags(TagLists)
    \/ Build

SpecMalformed == InitMalformed /\ [][NextMalformed]_vars

-----------------------------------------------------------------------------
(* QBitClient called on bounded inputs. *)

\* The torrents of the server: the three of FilterTorrents and three more,
\* in the other finished states and in a downloading state.
ClientTorrents ==
    FilterTorrents \cup
    { Torrent(4, "checkingUP", 1, <<>>, << [url |-> <<"x", "p">>] >>, 0, 0, 0),
      Torrent(5, "forcedUP", 1, <<" ", "a">>, <<>>, 0, 0, 0),
      Torrent(6, "downloading", 1, <<"a">>, << [url |-> <<"x">>] >>, 0, 0, 0) }

\* exclude_tags: None, or one of the tag lists.
ExcludeTagArgs == {None} \cup {Some(l) : l \in TagLists}

\* exclude_trackers: None, [], ["x"], ["xp", "y"].
ExcludeTrackerArgs ==
    { None, Some(<<>>), Some(<< <<"x">> >>), Some(<< <<"x", "p">>, <<"y">> >>) }

InitClient ==
    /\ pc = "client"
    /\ server_torrents \in SeqsUpTo(ClientTorrents, MaxServer)
    /\ torrents_delete_calls = <<>>
    /\ exclude_tags = None
    /\ exclude_trackers = None
    /\ candidates = <<>>
    /\ remove_arg = NotCalled
    /\ SelectIdle
    /\ BuilderIdle
    /\ DriverIdle

\* client.get_finished_torrents()
GetFinishedTorrents ==
    /\ pc = "client"
    /\ candidates' = get_finished_torrents(server_torrents)
    /\ pc' = "get_finished_torrents"
    /\ UNCHANGED <<server_torrents, torrents_delete_calls, exclude_tags,
                   exclude_trackers, remove_arg>>
    /\ UNCHANGED <<selectVars, builderVars, driverVars>>

\* client.get_eligible_torrents(exclude_tags, exclude_trackers)
GetEligibleTorrents ==
    /\ pc = "client"
    /\ \E ex_tags \in ExcludeTagArgs, ex_trackers \in ExcludeTrackerArgs :
          /\ exclude_tags' = ex_tags
          /\ exclude_trackers' = ex_trackers
          /\ candidates' =
                 get_eligible_torrents(server_torrents, ex_tags, ex_trackers)
    /\ pc' = "get_eligible_torrents"
    /\ UNCHANGED <<server_torrents, torrents_delete_calls, remove_arg>>
    /\ UNCHANGED <<selectVars, builderVars, driverVars>>

\* client.remove_torrents(torrents, delete_files), called once, on no torrent,
\* on the finished torrents or on all of them
RemoveTorrents ==
    /\ ~remove_arg.called
    /\ \E ts \in {<<>>, get_finished_torrents(server_torrents), server_torrents},
          delete_files \in BOOLEAN :
          /\ remove_arg' = [called |-> TRUE, torrents |-> ts,
                            delete_files |-> delete_files]
          /\ torrents_delete_calls' =
                 remove_torrents(torrents_delete_calls, ts, delete_files)
    /\ UNCHANGED <<pc, server_torrents, exclude_tags, exclude_trackers, candidates>>
    /\ UNCHANGED <<selectVars, builderVars, driverVars>>

NextClient ==
    \/ GetFinishedTorrents
    \/ GetEligibleTorrents
    \/ RemoveTorrents

SpecClient == InitClient /\ [][NextClient]_vars

-----------------------------------------------------------------------------
(* check_and_make_disk_space.py: main, one action for each stage. *)

\* The criteria main() filters by.
states_to_check == {"stalledUP", "pausedUP", "checkingUP", "forcedUP"}

min_seeding_time_seconds == 3 * 24 * 60 * 60

permaseed == <<"p", "e", "r", "m", "a", "s", "e", "e", "d">>

keep == <<"k", "e", "e", "p">>

tags_to_exclude == <<permaseed, keep>>

\* The torrents of the server main() runs against: two it may remove, one
\* kept back by each criterion (seeding time exactly three days, state
\* uploading, tags "keep, other", tags "permaseed"), and one it may remove
\* that has size 0 (no file of it selected for download).
DriverTorrents ==
    { Torrent(1, "stalledUP", 1, <<>>, <<>>, 0, min_seeding_time_seconds + 1, 0),
      Torrent(2, "pausedUP", 2, <<"o", "t", "h", "e", "r">>, <<>>, 0,
              min_seeding_time_seconds + 1, 0),
      Torrent(3, "stalledUP", 1, <<>>, <<>>, 0, min_seeding_time_seconds, 0),
      Torrent(4, "uploading", 2, <<>>, <<>>, 0, min_seeding_time_seconds + 1, 0),
      Torrent(5, "forcedUP", 1, keep \o <<",", " ", "o", "t", "h", "e", "r">>,
              <<>>, 0, min_seeding_time_seconds + 1, 0),
      Torrent(6, "checkingUP", 2, permaseed, <<>>, 0,
              min_seeding_time_seconds + 1, 0),
      Torrent(7, "stalledUP", 0, <<>>, <<>>, 0, min_seeding_time_seconds + 1, 0) }

\* The lists of distinct torrents a server holds.
ServerLists ==
    { l \in SeqsUpTo(DriverTorrents, MaxServer) :
        \A i, j \in DOMAIN l : l[i] = l[j] => i = j }

InitDriver ==
    /\ pc = "initial"
    /\ required_space_bytes \in 0..MaxRequired
    /\ server_torrents \in ServerLists
    /\ torrents_delete_calls = <<>>
    /\ checked_free = -1
    /\ current_free_bytes = -1
    /\ space_deficit_bytes = 0
    /\ all_torrents = <<>>
    /\ filtered_torrents = <<>>
    /\ torrents_to_remove = <<>>
    /\ rechecked_free = -1
    /\ client_calls = <<>>
    /\ exit_code = -1
    /\ exclude_tags = None
    /\ exclude_trackers = None
    /\ candidates = <<>>
    /\ remove_arg = NotCalled
    /\ SelectIdle
    /\ BuilderIdle

\* sys.exit(code); an exception nothing catches ends the process with 1 too.
Exit(code) ==
    /\ pc' = "exit"
    /\ exit_code' = code

\* What main() does not touch outside its own variables.
DriverFrame ==
    UNCHANGED <<required_space_bytes, server_torrents, exclude_tags,
                exclude_trackers, candidates, remove_arg, selectVars, builderVars>>

\* The comparison with the requirement taken strictly.
check_free_space_strict(free, required_bytes) == free > required_bytes

\* What check_free_space returns when the disk reports free bytes.
check_free_space(free, required_bytes) == free >= required_bytes

\* 1. The initial check going on to the cleanup whatever the disk reports.
InitialCheckThenCleanup ==
    /\ pc = "initial"
    /\ \/ /\ Exit(1)
          /\ UNCHANGED checked_free
       \/ \E free \in 0..MaxFree :
             /\ checked_free' = free
             /\ pc' = "deficit"
             /\ UNCHANGED exit_code
    /\ UNCHANGED <<current_free_bytes, space_deficit_bytes, all_torrents,
                   filtered_torrents, torrents_to_remove, torrents_delete_calls,
                   rechecked_free, client_calls>>
    /\ DriverFrame

\* 1. check_free_space(args.path, required_space_bytes): the path is missing,
\* or the disk reports some free space.
InitialCheck ==
    /\ pc = "initial"
    /\ \/ /\ Exit(1)
          /\ UNCHANGED checked_free
       \/ \E free \in 0..MaxFree :
             /\ checked_free' = free
             /\ IF check_free_space(free, required_space_bytes)
                THEN Exit(0)
                ELSE pc' = "deficit" /\ UNCHANGED exit_code
    /\ UNCHANGED <<current_free_bytes, space_deficit_bytes, all_torrents,
                   filtered_torrents, torrents_to_remove, torrents_delete_calls,
                   rechecked_free, client_calls>>
    /\ DriverFrame

\* 2. shutil.disk_usage(args.path) again, and the deficit.  A missing path
\* raises FileNotFoundError, which nothing catches: the process ends with 1.
ComputeDeficit ==
    /\ pc = "deficit"
    /\ \/ /\ Exit(1)
          /\ UNCHANGED <<current_free_bytes, space_deficit_bytes>>
       \/ \E free \in 0..MaxFree :
             /\ current_free_bytes' = free
             /\ space_deficit_bytes' = required_space_bytes - free
             /\ pc' = "connect"
             /\ UNCHANGED exit_code
    /\ UNCHANGED <<checked_free, all_torrents, filtered_torrents,
                   torrents_to_remove, torrents_delete_calls, rechecked_free,
                   client_calls>>
    /\ DriverFrame

\* Config, QBitClient and auth_log_in(): the log-in works, or it raises, or
\* reading the configuration raises before any request is made.
Connect ==
    /\ pc = "connect"
    /\ \/ /\ client_calls' = Append(client_calls, "auth_log_in")
          /\ pc' = "fetch"
          /\ UNCHANGED exit_code
       \/ /\ client_calls' = Append(client_calls, "auth_log_in")
          /\ Exit(1)
       \/ /\ UNCHANGED client_calls
          /\ Exit(1)
    /\ UNCHANGED <<checked_free, current_free_bytes, space_deficit_bytes,
                   all_torrents, filtered_torrents, torrents_to_remove,
                   torrents_delete_calls, rechecked_free>>
    /\ DriverFrame

\* all_torrents = client._client.torrents_info(), or the request raises.
Fetch ==
    /\ pc = "fetch"
    /\ client_calls' = Append(client_calls, "torrents_info")
    /\ \/ /\ all_torrents' = server_torrents
          /\ IF server_torrents = <<>>
             THEN Exit(1)
             ELSE pc' = "filter" /\ UNCHANGED exit_code
       \/ /\ UNCHANGED all_torrents
          /\ Exit(1)
    /\ UNCHANGED <<checked_free, current_free_bytes, space_deficit_bytes,
                   filtered_torrents, torrents_to_remove, torrents_delete_calls,
                   rechecked_free>>
    /\ DriverFrame

\* The builder chain without its predicate on tags.
DriverFiltersIgnoringTags ==
    << Filter("with_states", states_to_check),
       Filter("seeding_time_greater_than", min_seeding_time_seconds) >>

\* The builder chain of main().
DriverFilters ==
    << Filter("with_states", states_to_check),
       Filter("seeding_time_greater_than", min_seeding_time_seconds),
       Filter("without_tags", Range(tags_to_exclude)) >>

FilterCandidates ==
    /\ pc = "filter"
    /\ LET filtered == build(all_torrents, DriverFilters).result IN
         /\ filtered_torrents' = filtered
         /\ IF filtered = <<>>
            THEN Exit(1)
            ELSE pc' = "select" /\ UNCHANGED exit_code
    /\ UNCHANGED <<checked_free, current_free_bytes, space_deficit_bytes,
                   all_torrents, torrents_to_remove, torrents_delete_calls,
                   rechecked_free, client_calls>>
    /\ DriverFrame

SelectForCleanup ==
    /\ pc = "select"
    /\ LET chosen == select_torrents_for_cleanup(filtered_torrents,
                          space_deficit_bytes, "strategy_smallest_first") IN
         /\ torrents_to_remove' = chosen
         /\ IF chosen = <<>>
            THEN Exit(1)
            ELSE pc' = "delete" /\ UNCHANGED exit_code
    /\ UNCHANGED <<checked_free, current_free_bytes, space_deficit_bytes,
                   all_torrents, filtered_torrents, torrents_delete_calls,
                   rechecked_free, client_calls>>
    /\ DriverFrame

\* client.remove_torrents(torrents_to_remove, True): the request is made, and
\* returns or raises.
Delete ==
    /\ pc = "delete"
    /\ torrents_delete_calls' =
           remove_torrents(torrents_delete_calls, torrents_to_remove, TRUE)
    /\ client_calls' =
           IF torrents_delete_calls' = torrents_delete_calls THEN client_calls
           ELSE Append(client_calls, "torrents_delete")
    /\ \/ pc' = "recheck" /\ UNCHANGED exit_code
       \/ Exit(1)
    /\ UNCHANGED <<checked_free, current_free_bytes, space_deficit_bytes,
                   all_torrents, filtered_torrents, torrents_to_remove,
                   rechecked_free>>
    /\ DriverFrame

\* 3. After the sleep, check_free_space again; on insufficient space the run
\* starts over from the listing.
RecheckAndRetry ==
    /\ pc = "recheck"
    /\ \/ /\ Exit(1)
          /\ UNCHANGED rechecked_free
       \/ \E free \in 0..MaxFree :
             /\ rechecked_free' = free
             /\ IF check_free_space(free, required_space_bytes)
                THEN Exit(0)
                ELSE pc' = "fetch" /\ UNCHANGED exit_code
    /\ UNCHANGED <<checked_free, current_free_bytes, space_deficit_bytes,
                   all_torrents, filtered_torrents, torrents_to_remove,
                   torrents_delete_calls, client_calls>>
    /\ DriverFrame

\* 3. After the sleep, check_free_space again.
Recheck ==
    /\ pc = "recheck"
    /\ \/ /\ Exit(1)
          /\ UNCHANGED rechecked_free
       \/ \E free \in 0..MaxFree :
             /\ rechecked_free' = free
             /\ IF check_free_space(free, required_space_bytes)
                THEN Exit(0)
                ELSE Exit(1)
    /\ UNCHANGED <<checked_free, current_free_bytes, space_deficit_bytes,
                   all_torrents, filtered_torrents, torrents_to_remove,
                   torrents_delete_calls, client_calls>>
    /\ DriverFrame

NextDriver ==
    \/ InitialCheck
    \/ ComputeDeficit
    \/ Connect
    \/ Fetch
    \/ FilterCandidates
    \/ SelectForCleanup
    \/ Delete
    \/ Recheck

SpecDriver == InitDriver /\ [][NextDriver]_vars

\* main() as the single thread runs it: a statement that can run does run,
\* every blocking call returning or raising.
SpecDriverFair == SpecDriver /\ WF_vars(NextDriver)

\* main() together with one direct call of remove_torrents.
NextCleanup ==
    \/ NextDriver
    \/ RemoveTorrents

SpecCleanup == InitDriver /\ [][NextCleanup]_vars

-----------------------------------------------------------------------------
(* Claims about the selection, under SpecSelect. *)

Returned == pc = "selected"

C2_NonEmptyReachesTargetAsPrefix ==
    (Returned /\ selected_for_deletion # <<>>)
        => /\ SumSize(selected_for_deletion) >= space_to_free_bytes
           /\ IsPrefix(selected_for_deletion, ApplyStrategy(strategy, torrents))

\* C2 witness: a proper, non-empty prefix was returned and the strategy's
\* order differs from the input order.
C2_Witness ==
    /\ Returned
    /\ selected_for_deletion # <<>>
    /\ Len(selected_for_deletion) < Len(torrents)
    /\ ApplyStrategy(strategy, torrents) # torrents
    /\ selected_for_deletion[1] # torrents[1]

\* C3 as stated: for every non-empty candidate list whose total is at least
\* the requested bytes the result is non-empty, for every requested value,
\* zero and negative included.
C3_Original ==
    (Returned /\ torrents # <<>> /\ SumSize(torrents) >= space_to_free_bytes)
        => selected_for_deletion # <<>>

\* C3 amended: for a non-empty candidate list whose total is at least the
\* requested bytes, the result is non-empty exactly when the requested bytes
\* are strictly positive; for zero or a negative request it is empty.
C3_NonEmptyIffPositiveTarget ==
    (Returned /\ torrents # <<>> /\ SumSize(torrents) >= space_to_free_bytes)
        => (selected_for_deletion # <<>> <=> space_to_free_bytes > 0)

\* C3 witness: the total equals a positive request and something is selected.
C3_Witness ==
    /\ Returned
    /\ torrents # <<>>
    /\ space_to_free_bytes > 0
    /\ SumSize(torrents) = space_to_free_bytes
    /\ selected_for_deletion # <<>>

-----------------------------------------------------------------------------
(* Claims about the delete request, under SpecCleanup. *)

\* The requests a direct remove_torrents call should have sent.
DirectRequests ==
    IF remove_arg.called /\ remove_arg.torrents # <<>> THEN 1 ELSE 0

\* The requests main() should have sent.
DriverRequests ==
    IF torrents_to_remove # <<>> /\ pc \in {"recheck", "exit"} THEN 1 ELSE 0

\* The selection of main() ran and returned the empty list.
SelectionCameBackEmpty ==
    pc = "exit" /\ filtered_torrents # <<>> /\ torrents_to_remove = <<>>

\* C4: no delete request is sent for an empty selection: remove_torrents of
\* the empty list sends none (every request names a torrent, and only the
\* calls with a non-empty list send one), and main() exits with 1 without
\* reaching remove_torrents when the selection is empty.
C4_NoDeleteForEmptySelection ==
    /\ \A i \in DOMAIN torrents_delete_calls :
           torrents_delete_calls[i].torrent_hashes # <<>>
    /\ Len(torrents_delete_calls) = DirectRequests + DriverRequests
    /\ torrents_to_remove = <<>> => pc \notin {"delete", "recheck"}
    /\ SelectionCameBackEmpty => exit_code = 1

\* C4 witness: remove_torrents was called with the empty list, the selection
\* of main() came back empty, and no request was sent.
C4_Witness ==
    /\ remove_arg.called
    /\ remove_arg.torrents = <<>>
    /\ SelectionCameBackEmpty
    /\ torrents_delete_calls = <<>>

-----------------------------------------------------------------------------
(* Claims about the filter builder, under SpecFilter. *)

Built == build_calls # "none"

\* The positions of ts whose torrent every predicate of fs accepts.
KeptPositions(ts, fs) ==
    {i \in DOMAIN ts : \A j \in DOMAIN fs : Accepts(fs[j], ts[i])}

\* The k-th smallest element of the set of positions P.
KthOf(P, k) == CHOOSE i \in P : Cardinality({j \in P : j <= i}) = k

Reorderings(n) == {q \in [1..n -> 1..n] : \A i, j \in 1..n : q[i] = q[j] => i = j}

\* C5: build() returns exactly the input torrents that every added predicate
\* accepts, in input order; with no predicate added it returns the input.
C5_BuildIsConjunction ==
    Built =>
        LET kept == KeptPositions(_torrents, _filters) IN
            /\ Len(build_result) = Cardinality(kept)
            /\ \A k \in DOMAIN build_result :
                   build_result[k] = _torrents[KthOf(kept, k)]
            /\ _filters = <<>> => build_result = _torrents

\* C5 witness: two predicates were added and build() kept some torrents and
\* dropped others.
C5_Witness ==
    /\ Built
    /\ Len(_filters) = 2
    /\ build_result # <<>>
    /\ Len(build_result) < Len(_torrents)

\* C6: the result of build() is the same whatever the order in which the
\* predicates were added.
C6_OrderIndependent ==
    Built =>
        \A q \in Reorderings(Len(_filters)) :
            build(_torrents, [i \in DOMAIN _filters |-> _filters[q[i]]]).result
                = build_result

\* C6 witness: two predicates that accept different torrents were added and
\* the result was built.
C6_Witness ==
    /\ Built
    /\ Len(_filters) = 2
    /\ Len(_torrents) = 2
    /\ build(_torrents, <<_filters[1]>>).result # build(_torrents, <<_filters[2]>>).result
    /\ build(_torrents, <<_filters[1]>>).result # build_result
    /\ build(_torrents, <<_filters[2]>>).result # build_result

\* C7: build() changes neither the input collection nor the predicate list,
\* and a second build() with no with* call in between returns what the first
\* returned.
C7_BuildIdempotentNoEffect ==
    [][ (build_calls' # "none" /\ build_calls' # build_calls)
            => /\ _torrents' = _torrents
               /\ _filters' = _filters
               /\ (build_calls # "none" => build_result' = build_result) ]_vars

\* C7 witness: build() was called twice in a row on a builder whose
\* predicates drop some torrent.
C7_Witness ==
    /\ build_calls = "twice"
    /\ _filters # <<>>
    /\ build_result # <<>>
    /\ build_result # _torrents

-----------------------------------------------------------------------------
(* Claims about the tag predicates, under SpecTags. *)

\* x without its leading and trailing whitespace.
Trimmed(x) ==
    LET solid == {i \in DOMAIN x : x[i] \notin Whitespace} IN
        IF solid = {} THEN <<>>
        ELSE SubSeq(x, CHOOSE i \in solid : \A j \in solid : i <= j,
                       CHOOSE i \in solid : \A j \in solid : j <= i)

\* The tags of the tag string s: the stretches of s between commas (or an
\* end of s), each trimmed.
TagsBetweenCommas(s) ==
    { Trimmed(SubSeq(s, a, b)) :
        <<a, b>> \in { r \in (1..(Len(s) + 1)) \X (0..Len(s)) :
                         /\ r[2] >= r[1] - 1
                         /\ \A i \in r[1]..r[2] : s[i] # ","
                         /\ r[1] = 1 \/ s[r[1] - 1] = ","
                         /\ r[2] = Len(s) \/ s[r[2] + 1] = "," } }

OneTagFilterBuilt == Built /\ Len(_filters) = 1 /\ Len(_torrents) = 1

\* C8 as stated: a torrent whose tag string is empty has no tags, so
\* with_tags rejects it and without_tags accepts it, whatever tags are given.
C8_EmptyTagStringHasNoTags ==
    (OneTagFilterBuilt /\ _torrents[1].tags = <<>>)
        => /\ _filters[1].kind = "with_tags" => build_result = <<>>
           /\ _filters[1].kind = "without_tags" => build_result = _torrents

\* C9: without_tags accepts a record exactly when no tag of its tag string
\* (split on commas, each part trimmed) is among the given tags, and it
\* accepts exactly the records with_tags rejects.
C9_WithoutTagsIsDisjointness ==
    OneTagFilterBuilt =>
        LET t == _torrents[1]
            given == _filters[1].arg
            disjoint == (given \cap TagsBetweenCommas(t.tags)) = {}
        IN  /\ _filters[1].kind = "without_tags"
                   => (build_result = <<t>> <=> disjoint)
            /\ _filters[1].kind = "with_tags"
                   => (build_result = <<t>> <=> ~disjoint)
            /\ Accepts(Filter("without_tags", given), t)
                   <=> ~Accepts(Filter("with_tags", given), t)

\* C9 witness: without_tags rejected a record with two comma-separated parts
\* none of which is a given tag as written, only once trimmed.
C9_Witness ==
    /\ OneTagFilterBuilt
    /\ _filters[1].kind = "without_tags"
    /\ Len(split(_torrents[1].tags, ",")) = 2
    /\ Range(split(_torrents[1].tags, ",")) \cap _filters[1].arg = {}
    /\ build_result = <<>>

-----------------------------------------------------------------------------
(* Claims about QBitClient.get_eligible_torrents, under SpecClient. *)

\* The entries of an optional list argument, none when it is not given.
Entries(x) == IF x.is_none THEN {} ELSE Range(x.list)

\* The positions of the listed torrents that C10 calls eligible.
EligiblePositions ==
    { i \in DOMAIN server_torrents :
        LET t == server_torrents[i] IN
            /\ t.state \in {"stalledUP", "pausedUP", "checkingUP", "forcedUP"}
            /\ TagsBetweenCommas(t.tags) \cap Entries(exclude_tags) = {}
            /\ \A j \in DOMAIN t.trackers :
                   t.trackers[j].url \notin Entries(exclude_trackers) }

\* C10: get_eligible_torrents returns exactly the listed torrents, in order,
\* that are in one of the four finished states, have no trimmed tag in
\* exclude_tags and no tracker URL equal to an entry of exclude_trackers;
\* with neither list given it returns what get_finished_torrents returns.
C10_EligibleTorrents ==
    pc = "get_eligible_torrents" =>
        /\ Len(candidates) = Cardinality(EligiblePositions)
        /\ \A k \in DOMAIN candidates :
               candidates[k] = server_torrents[KthOf(EligiblePositions, k)]
        /\ (exclude_tags.is_none /\ exclude_trackers.is_none)
               => candidates = get_finished_torrents(server_torrents)

\* C10 witness: both lists were given, a finished torrent was excluded, and
\* a torrent was returned one of whose tracker URLs contains an excluded
\* entry without being equal to it.
C10_Witness ==
    /\ pc = "get_eligible_torrents"
    /\ Truthy(exclude_tags)
    /\ Truthy(exclude_trackers)
    /\ Len(candidates) < Len(get_finished_torrents(server_torrents))
    /\ \E k \in DOMAIN candidates :
           \E j \in DOMAIN candidates[k].trackers :
               \E e \in Entries(exclude_trackers) :
                   Contains(candidates[k].trackers[j].url, e)

-----------------------------------------------------------------------------
(* Claims about the ranking strategies. *)

\* How often x occurs in the sequence s.
Occurrences(x, s) == Cardinality({i \in DOMAIN s : s[i] = x})

\* r holds the elements of s, each as often as s does.
IsPermutationOf(r, s) ==
    /\ Len(r) = Len(s)
    /\ \A x \in Range(r) \cup Range(s) : Occurrences(x, r) = Occurrences(x, s)

\* C11: strategy_smallest_first returns a permutation of its input, every
\* element as often as in the input, with sizes that never decrease along the
\* list, and the caller's list is the same after the call as before it.
C11_SmallestFirstSortsACopy ==
    [][(pc' = "sorted" /\ strategy = "strategy_smallest_first")
          => /\ IsPermutationOf(strategy_result', torrents)
             /\ \A i \in 1..(Len(strategy_result') - 1) :
                    strategy_result'[i].size <= strategy_result'[i + 1].size
             /\ torrents' = torrents]_vars

\* A list with a repeated record and a larger one ahead of a smaller one has
\* been ranked by size.
C11_Witness ==
    /\ pc = "sorted"
    /\ strategy = "strategy_smallest_first"
    /\ strategy_result # torrents
    /\ \E x \in Range(torrents) : Occurrences(x, torrents) = 2

\* The score of the claim compared exactly: (seeding_time / 86400) /
\* (size / 1024^3) for a positive size and 0 for size 0, the positive factor
\* 1024^3 / 86400 cancelled on both sides.
ScoreAtLeast(a, b) ==
    CASE b.size = 0 -> TRUE
      [] a.size = 0 -> b.seeding_time = 0
      [] OTHER -> a.seeding_time * b.size >= b.seeding_time * a.size

\* C12: strategy_score_by_seeding_time returns, without an error also when a
\* record has size 0, a permutation of its input in which the score never
\* increases along the list, and in which no record of size 0 stands ahead of
\* a record with positive size and positive seeding time.
C12_ScoreOrderWithZeroSizeLast ==
    [][(pc = "strategy" /\ pc' # "strategy"
            /\ strategy = "strategy_score_by_seeding_time")
          => /\ pc' = "sorted"
             /\ IsPermutationOf(strategy_result', torrents)
             /\ \A i \in 1..(Len(strategy_result') - 1) :
                    ScoreAtLeast(strategy_result'[i], strategy_result'[i + 1])
             /\ \A i, j \in DOMAIN strategy_result' :
                    (i < j /\ strategy_result'[i].size = 0)
                        => ~(/\ strategy_result'[j].size > 0
                             /\ strategy_result'[j].seeding_time > 0)]_vars

\* A record of size 0 that has seeded came in ahead of one with positive size
\* and positive seeding time, and has been ranked.
C12_Witness ==
    /\ pc = "sorted"
    /\ strategy = "strategy_score_by_seeding_time"
    /\ \E i, j \in DOMAIN torrents :
           /\ i < j
           /\ torrents[i].size = 0
           /\ torrents[i].seeding_time > 0
           /\ torrents[j].size > 0
           /\ torrents[j].seeding_time > 0
    /\ strategy_result # torrents

-----------------------------------------------------------------------------
(* Claims about the run of main(). *)

\* The disk reported enough free space to the first check.
SufficientAtInitialCheck ==
    checked_free # -1 /\ checked_free >= required_space_bytes

\* The disk reported enough free space to the check after the delete.
SufficientAtRecheck ==
    rechecked_free # -1 /\ rechecked_free >= required_space_bytes

\* C13: a run that has ended has exit code 0 exactly when the free space was
\* at least the required bytes at the initial check or at the check after the
\* delete; every other run that has ended has exit code 1.
C13_ExitCodes ==
    pc = "exit"
        => /\ exit_code \in {0, 1}
           /\ exit_code = 0 <=> (SufficientAtInitialCheck \/ SufficientAtRecheck)

\* A run that found too little space, deleted, and then found enough.
C13_Witness ==
    /\ pc = "exit"
    /\ exit_code = 0
    /\ ~SufficientAtInitialCheck
    /\ SufficientAtRecheck
    /\ torrents_delete_calls # <<>>

\* The place of a stage in the pipeline.
StageRank(p) ==
    CASE p = "initial" -> 1
      [] p = "deficit" -> 2
      [] p = "connect" -> 3
      [] p = "fetch" -> 4
      [] p = "filter" -> 5
      [] p = "select" -> 6
      [] p = "delete" -> 7
      [] p = "recheck" -> 8
      [] p = "exit" -> 9

\* C14: every step of a run moves to a later stage of initial check, deficit,
\* connect, fetch, filter, select, delete, recheck, end, so no stage is visited
\* twice or out of order; at most one delete request is ever issued and the
\* check after the delete reads the disk at most once; and every run reaches
\* the end with exit code 0 or 1.
C14_LinearPipeline ==
    /\ [][StageRank(pc') > StageRank(pc)]_vars
    /\ [](Len(torrents_delete_calls) <= 1)
    /\ [][rechecked_free # -1 => rechecked_free' = rechecked_free]_vars
    /\ <>(pc = "exit" /\ exit_code \in {0, 1})

\* A run that went through every stage.
C14_Witness ==
    /\ pc = "exit"
    /\ client_calls = <<"auth_log_in", "torrents_info", "torrents_delete">>
    /\ Len(torrents_delete_calls) = 1
    /\ rechecked_free # -1

\* C15: once the initial query has reported free space of at least the
\* required bytes, the run has ended with success, and no request has gone to
\* the torrent client: no log-in, no listing of torrents, no delete.
C15_SufficientSpaceTouchesNothing ==
    SufficientAtInitialCheck
        => /\ pc = "exit"
           /\ exit_code = 0
           /\ client_calls = <<>>
           /\ all_torrents = <<>>
           /\ torrents_delete_calls = <<>>

\* Enough space at the initial check, on a server that holds torrents main()
\* would otherwise remove.
C15_Witness ==
    /\ SufficientAtInitialCheck
    /\ pc = "exit"
    /\ required_space_bytes > 0
    /\ build(server_torrents, DriverFilters).result # <<>>

\* main() has called the selection.
SelectionMade == filtered_torrents # <<>> /\ pc # "select"

\* C16: when the sizes of the eligible candidates sum to exactly the deficit,
\* required minus current free, the selection holds every one of them; when
\* they sum to one less than the deficit, the selection is empty, no delete
\* request is issued and the run has ended with failure.
C16_EndToEndBoundary ==
    SelectionMade
        => /\ SumSize(filtered_torrents)
                  = required_space_bytes - current_free_bytes
              => Range(torrents_to_remove) = Range(filtered_torrents)
           /\ SumSize(filtered_torrents)
                  = required_space_bytes - current_free_bytes - 1
              => /\ torrents_to_remove = <<>>
                 /\ torrents_delete_calls = <<>>
                 /\ pc = "exit"
                 /\ exit_code = 1

-----------------------------------------------------------------------------
(* Claims about records with an absent attribute. *)

\* Whether f accepts t when an absent tag string stands for no tags: then
\* with_tags finds no tag of its list and without_tags finds none to exclude.
AcceptsDefensively(f, t) ==
    IF f.kind \in {"with_tags", "without_tags"} /\ "tags" \notin DOMAIN t
    THEN f.kind = "without_tags"
    ELSE Accepts(f, t)

\* C17: over a list holding a record without a tag string no predicate raises,
\* and build() returns the torrents every predicate accepts, the tag predicates
\* taking the absent tag string for an empty tag set.
C17_AbsentTagsAreNoTags ==
    /\ pc # "raised"
    /\ Built =>
         LET kept == {i \in DOMAIN _torrents :
                        \A j \in DOMAIN _filters :
                           AcceptsDefensively(_filters[j], _torrents[i])} IN
            /\ Len(build_result) = Cardinality(kept)
            /\ \A k \in DOMAIN build_result :
                  build_result[k] = _torrents[KthOf(kept, k)]

-----------------------------------------------------------------------------
(* Claims about what main() deletes. *)

\* The hashes main() has asked qBittorrent to delete.
DeletedHashes ==
    UNION { Range(torrents_delete_calls[c].torrent_hashes) :
              c \in DOMAIN torrents_delete_calls }

\* C18: every hash in a delete request of main() is the hash of a torrent of
\* the fetched snapshot, and that torrent is in one of the states stalledUP,
\* pausedUP, checkingUP, forcedUP, has seeded for more than 259200 seconds,
\* and has neither the tag permaseed nor the tag keep.
C18_OnlyEligibleTorrentsDeleted ==
    \A h \in DeletedHashes :
        \E i \in DOMAIN all_torrents :
            /\ all_torrents[i].hash = h
            /\ all_torrents[i].state
                   \in {"stalledUP", "pausedUP", "checkingUP", "forcedUP"}
            /\ all_torrents[i].seeding_time > 259200
            /\ permaseed \notin TagsBetweenCommas(all_torrents[i].tags)
            /\ keep \notin TagsBetweenCommas(all_torrents[i].tags)

\* A delete request was issued against a snapshot that also held a torrent
\* with an excluded tag.
C18_Witness ==
    /\ DeletedHashes # {}
    /\ \E i \in DOMAIN all_torrents :
           all_torrents[i].hash \notin DeletedHashes
           /\ keep \in TagsBetweenCommas(all_torrents[i].tags)

-----------------------------------------------------------------------------
(* Claims about the deficit and about the last torrent selected. *)

\* C19: whenever main() is about to call the selection, the deficit it passes
\* is strictly positive and is the required bytes minus the free space that
\* the initial check found insufficient, whatever the disk reported to the
\* separate query the deficit is computed from.
C19_DeficitMatchesInitialCheck ==
    pc = "select"
        => /\ space_deficit_bytes > 0
           /\ space_deficit_bytes = required_space_bytes - checked_free

\* C20: whenever the selection returns a non-empty list, the sizes of all its
\* torrents but the last sum to strictly less than the requested bytes.
C20_LastTorrentIsNeeded ==
    (Returned /\ selected_for_deletion # <<>>)
        => SumSize(SubSeq(selected_for_deletion, 1,
                          Len(selected_for_deletion) - 1))
               < space_to_free_bytes

\* Two or more torrents were selected, fewer than offered, and all but the
\* last fell one short of the requested bytes.
C20_Witness ==
    /\ Returned
    /\ Len(selected_for_deletion) >= 2
    /\ Len(selected_for_deletion) < Len(torrents)
    /\ SumSize(SubSeq(selected_for_deletion, 1,
                      Len(selected_for_deletion) - 1))
           = space_to_free_bytes - 1

====
